---- MODULE Spec2Model ----
(***************************************************************************)
(* A model of src/src/container.rs: the ContainerBuilder configuration     *)
(* chain, the futures returned by build(), pull_image() and delete(), and  *)
(* the container engine they talk to through the shared client.            *)
(*                                                                         *)
(* Strings the code computes with (image references, container names) are  *)
(* sequences of one-character strings.  Option<T> is a sequence of length  *)
(* at most one: None == << >>, Some(x) == <<x>>.                           *)
(***************************************************************************)
EXTENDS Naturals, Sequences, FiniteSets

VARIABLES
    builder,    \* [Builders -> ContainerBuilder value and whether the caller still owns it]
    api,        \* history: per builder, the arguments of the public calls made on it
    fut,        \* [FutIds -> the future returned by build(), pull_image() or delete()];
                \* its field "of" is history: the builder it was made from
    calls,      \* history: per future, the engine calls it issued, with their answers
    container,  \* [Builders -> the Container value build() yielded, and whether it was consumed]
    engine      \* the engine behind the client: containers, running ones, id counter

vars == <<builder, api, fut, calls, container, engine>>

----------------------------------------------------------------------------
(* Bounds *)

NumBuilders == 2    \* builders (hence build() futures) that may exist side by side
MaxPulls == 1       \* pull_image() futures that may exist side by side
MaxPorts == 2       \* expose() calls per builder
MaxSlug == 2        \* largest slug_length() argument
MaxEvents == 1      \* progress events a pull stream yields before it ends

Builders == 1..NumBuilders
PullIds == 1..MaxPulls

\* The builder whose configuration inputs are enumerated in full, and the
\* pull_image() future made from it (SpecCfg).
CfgBuilders == {1}
CfgPulls == {1}

----------------------------------------------------------------------------
(* Values *)

None == << >>
Some(x) == <<x>>

Nil == "nil"

\* rand::distributions::Alphanumeric: a-z, A-Z, 0-9.
Alphanumeric ==
    { "a","b","c","d","e","f","g","h","i","j","k","l","m",
      "n","o","p","q","r","s","t","u","v","w","x","y","z",
      "A","B","C","D","E","F","G","H","I","J","K","L","M",
      "N","O","P","Q","R","S","T","U","V","W","X","Y","Z",
      "0","1","2","3","4","5","6","7","8","9" }

\* The characters the modelled generator draws from.
SlugChars == {"a", "7"}

RECURSIVE SeqsOfLen(_, _)
SeqsOfLen(S, n) ==
    IF n = 0 THEN { << >> }
    ELSE { Append(s, c) : s \in SeqsOfLen(S, n - 1), c \in S }

\* Inputs of the public operations.
ImageNames == { <<"r">>, <<"n","g">> }
Names == { <<"f">>, <<"g","_">> }
SlugLengths == 0..MaxSlug
PortInputs ==
    { [source |-> 80, host |-> 8080, protocol |-> "Tcp"],
      [source |-> 53, host |-> 5353, protocol |-> "Udp"] }

\* The image each of the concurrent builds is given (Spec).
ImageOf(b) == IF b % 2 = 1 THEN <<"r">> ELSE <<"n","g">>

\* The engine's errors (shiplift::Error values).
Errors == {"e1", "e2"}

BuildFut(b) == <<"build", b>>
PullFut(k) == <<"pull", k>>
DeleteFut(b) == <<"delete", b>>

FutIds ==
    { BuildFut(b) : b \in Builders } \cup { PullFut(k) : k \in PullIds }
        \cup { DeleteFut(b) : b \in Builders }

NoBuilder ==
    [state |-> "none", image_name |-> << >>, image_tag |-> << >>, name |-> None,
     ports |-> << >>, pull_on_build |-> FALSE, slug_length |-> 0]

NoApi == [image_name |-> << >>, name |-> None, slug_length |-> 0, ports |-> << >>]

NoFut ==
    [pc |-> "none", image |-> << >>, name |-> None, ports |-> << >>, pull |-> FALSE,
     id |-> 0, events |-> 0, err |-> Nil, of |-> 0]

NoContainer == [state |-> "none", details |-> Nil]

Call(op, arg) == [op |-> op, arg |-> arg, res |-> "pending", ret |-> Nil]

----------------------------------------------------------------------------
(* Pure functions of the code *)

\* Protocol::as_ref
as_ref(protocol) ==
    CASE protocol = "Tcp" -> "tcp"
      [] protocol = "Udp" -> "udp"

\* Mutant of ContainerBuilder::new: pull_on_build starts set.
ContainerBuilder_new_pulling(image_name) ==
    [state |-> "live",
     image_name |-> image_name,
     image_tag |-> <<"l","a","t","e","s","t">>,
     name |-> None,
     ports |-> << >>,
     pull_on_build |-> TRUE,
     slug_length |-> 0]

\* ContainerBuilder::new
ContainerBuilder_new(image_name) ==
    [state |-> "live",
     image_name |-> image_name,
     image_tag |-> <<"l","a","t","e","s","t">>,
     name |-> None,
     ports |-> << >>,
     pull_on_build |-> FALSE,
     slug_length |-> 0]

\* ContainerBuilder::image
image(bd) == bd.image_name \o <<":">> \o bd.image_tag

\* Mutant of slugged_name: the suffix is appended whatever the slug length.
slugged_name_always(bd, slug) ==
    IF bd.name = None THEN None
    ELSE Some(bd.name[1] \o <<"_">> \o SubSeq(slug, 1, bd.slug_length))

\* ContainerBuilder::slugged_name; slug is what the generator yields, of which
\* take(slug_length) keeps the first slug_length characters.
slugged_name(bd, slug) ==
    IF bd.name = None THEN None
    ELSE IF bd.slug_length > 0
         THEN Some(bd.name[1] \o <<"_">> \o SubSeq(slug, 1, bd.slug_length))
         ELSE Some(bd.name[1])

\* pull_image_if: the first stage of the chain build() returns.
pull_image_if(pull) == IF pull THEN "pull" ELSE "ready"

\* create_container: the ContainerOptions it builds, as the calls made on the
\* options builder: image, name (if any), one expose per port in iteration order.
RECURSIVE ExposeAll(_, _)
ExposeAll(options, ports) ==
    IF ports = << >> THEN options
    ELSE ExposeAll(
            [options EXCEPT !.expose =
                Append(@, <<ports[1].source, as_ref(ports[1].protocol), ports[1].host>>)],
            Tail(ports))

ContainerOptions(img, container_name, ports) ==
    ExposeAll([image |-> img, name |-> container_name, expose |-> << >>], ports)

\* Container::id
id(c) == c.details.id

\* Mutants of the calls: start and inspect address the container the engine
\* created last instead of the one this build created; remove does not force.
start_call_latest(ft) == Call("start", [id |-> Len(engine.images)])
inspect_call_latest(ft) == Call("inspect", [id |-> Len(engine.images)])
remove_call_unforced(ft) == Call("remove", [id |-> ft.id, force |-> FALSE])

\* The engine calls of the code, as issued.
pull_call(ft) == Call("pull", [image |-> ft.image])
create_call(ft) == Call("create", ContainerOptions(ft.image, ft.name, ft.ports))
start_call(ft) == Call("start", [id |-> ft.id])
inspect_call(ft) == Call("inspect", [id |-> ft.id])
remove_call(ft) == Call("remove", [id |-> ft.id, force |-> TRUE])

----------------------------------------------------------------------------
(* The engine *)

\* Containers are identified by the position of their image in engine.images:
\* every successful create takes the next, so no id is ever handed out twice.
NextId == Len(engine.images) + 1

\* What inspect answers for container i.
EngineDetails(i) ==
    [id |-> i, image |-> engine.images[i], running |-> i \in engine.running]

Answer(f, res, ret) ==
    [calls EXCEPT ![f][Len(calls[f])].res = res, ![f][Len(calls[f])].ret = ret]

Pending(f) == calls[f] # << >> /\ calls[f][Len(calls[f])].res = "pending"

----------------------------------------------------------------------------
Init ==
    /\ builder = [b \in Builders |-> NoBuilder]
    /\ api = [b \in Builders |-> NoApi]
    /\ fut = [f \in FutIds |-> NoFut]
    /\ calls = [f \in FutIds |-> << >>]
    /\ container = [b \in Builders |-> NoContainer]
    /\ engine = [containers |-> {}, running |-> {}, images |-> << >>]

----------------------------------------------------------------------------
(* The builder's public operations *)

\* ContainerBuilder::new (also Container::builder)
new(b, image_name) ==
    /\ builder[b].state = "none"
    /\ builder' = [builder EXCEPT ![b] = ContainerBuilder_new(image_name)]
    /\ api' = [api EXCEPT ![b] = [NoApi EXCEPT !.image_name = image_name]]
    /\ UNCHANGED <<fut, calls, container, engine>>

\* ContainerBuilder::name
name(b, n) ==
    /\ builder[b].state = "live"
    /\ builder' = [builder EXCEPT ![b].name = Some(n)]
    /\ api' = [api EXCEPT ![b].name = Some(n)]
    /\ UNCHANGED <<fut, calls, container, engine>>

\* ContainerBuilder::slug_length
slug_length(b, length) ==
    /\ builder[b].state = "live"
    /\ builder' = [builder EXCEPT ![b].slug_length = length]
    /\ api' = [api EXCEPT ![b].slug_length = length]
    /\ UNCHANGED <<fut, calls, container, engine>>

\* Mutant of expose: the port is put in front of the list.
expose_front(b, port) ==
    /\ builder[b].state = "live"
    /\ Len(api[b].ports) < MaxPorts
    /\ builder' = [builder EXCEPT ![b].ports = <<port>> \o @]
    /\ api' = [api EXCEPT ![b].ports = Append(@, port)]
    /\ UNCHANGED <<fut, calls, container, engine>>

\* ContainerBuilder::expose
expose(b, port) ==
    /\ builder[b].state = "live"
    /\ Len(api[b].ports) < MaxPorts
    /\ builder' = [builder EXCEPT ![b].ports = Append(@, port)]
    /\ api' = [api EXCEPT ![b].ports = Append(@, port)]
    /\ UNCHANGED <<fut, calls, container, engine>>

\* ContainerBuilder::pull_image: borrows the builder; the future it returns owns
\* the image reference and starts at the pull stage.
pull_image(b, k) ==
    /\ builder[b].state = "live"
    /\ fut[PullFut(k)].pc = "none"
    /\ fut' = [fut EXCEPT ![PullFut(k)] =
                [NoFut EXCEPT !.pc = "pull", !.image = image(builder[b]), !.pull = TRUE,
                              !.of = b]]
    /\ UNCHANGED <<builder, api, calls, container, engine>>

\* ContainerBuilder::build: consumes the builder; image, name and ports are
\* computed when build() is called, the chain runs when the future is polled.
build(b, slug) ==
    /\ builder[b].state = "live"
    /\ fut[BuildFut(b)].pc = "none"
    /\ fut' = [fut EXCEPT ![BuildFut(b)] =
                [NoFut EXCEPT !.pc = pull_image_if(builder[b].pull_on_build),
                              !.image = image(builder[b]),
                              !.name = slugged_name(builder[b], slug),
                              !.ports = builder[b].ports,
                              !.pull = builder[b].pull_on_build,
                              !.of = b]]
    /\ builder' = [builder EXCEPT ![b].state = "moved"]
    /\ UNCHANGED <<api, calls, container, engine>>

----------------------------------------------------------------------------
(* The chain of a future, one engine answer at a time *)

\* The first poll of a future at the pull stage: pull_image issues the pull.
PollPull(f) ==
    /\ fut[f].pc = "pull"
    /\ calls[f] = << >>
    /\ calls' = [calls EXCEPT ![f] = Append(@, pull_call(fut[f]))]
    /\ UNCHANGED <<builder, api, fut, container, engine>>

\* The first poll of a build() future that does not pull: future::ok is ready,
\* and_then runs create_container at once.
PollReady(f) ==
    /\ fut[f].pc = "ready"
    /\ fut' = [fut EXCEPT ![f].pc = "create"]
    /\ calls' = [calls EXCEPT ![f] = Append(@, create_call(fut[f]))]
    /\ UNCHANGED <<builder, api, container, engine>>

\* Mutant of pull_image: the future is done at the first progress event.
PullOutput_Completes(f) ==
    /\ fut[f].pc = "pull"
    /\ Pending(f)
    /\ fut[f].events < MaxEvents
    /\ fut' = [fut EXCEPT ![f].pc = "ok"]
    /\ UNCHANGED <<builder, api, calls, container, engine>>

\* pull_image: for_each takes one progress event off the stream.
PullOutput(f) ==
    /\ fut[f].pc = "pull"
    /\ Pending(f)
    /\ fut[f].events < MaxEvents
    /\ fut' = [fut EXCEPT ![f].events = @ + 1]
    /\ UNCHANGED <<builder, api, calls, container, engine>>

\* pull_image: the stream ends; a pull_image() future is done, a build() future
\* goes on to create_container.
PullEnd(f) ==
    /\ fut[f].pc = "pull"
    /\ Pending(f)
    /\ IF f[1] = "build"
       THEN /\ fut' = [fut EXCEPT ![f].pc = "create", ![f].events = 0]
            /\ calls' = [Answer(f, "ok", Nil) EXCEPT ![f] = Append(@, create_call(fut[f]))]
       ELSE /\ fut' = [fut EXCEPT ![f].pc = "ok", ![f].events = 0]
            /\ calls' = Answer(f, "ok", Nil)
    /\ UNCHANGED <<builder, api, container, engine>>

\* pull_image: the stream ends with an error, which for_each hands on.
PullError(f, e) ==
    /\ fut[f].pc = "pull"
    /\ Pending(f)
    /\ fut' = [fut EXCEPT ![f].pc = "err", ![f].err = e, ![f].events = 0]
    /\ calls' = Answer(f, e, Nil)
    /\ UNCHANGED <<builder, api, container, engine>>

\* Mutant of build: after create the chain goes to inspect_container, skipping
\* run_container.
CreateOk_NoStart(b) ==
    LET f == BuildFut(b)
        i == NextId
        ft == [fut[f] EXCEPT !.pc = "inspect", !.id = i]
    IN  /\ fut[f].pc = "create"
        /\ Pending(f)
        /\ engine' = [engine EXCEPT !.containers = @ \cup {i},
                                    !.images = Append(@, calls[f][Len(calls[f])].arg.image)]
        /\ fut' = [fut EXCEPT ![f] = ft]
        /\ calls' = [Answer(f, "ok", i) EXCEPT ![f] = Append(@, inspect_call(ft))]
        /\ UNCHANGED <<builder, api, container>>

\* create_container succeeds: the engine holds a new container, not running;
\* and_then runs run_container with the id the engine returned.
CreateOk(b) ==
    LET f == BuildFut(b)
        i == NextId
        ft == [fut[f] EXCEPT !.pc = "start", !.id = i]
    IN  /\ fut[f].pc = "create"
        /\ Pending(f)
        /\ engine' = [engine EXCEPT !.containers = @ \cup {i},
                                    !.images = Append(@, calls[f][Len(calls[f])].arg.image)]
        /\ fut' = [fut EXCEPT ![f] = ft]
        /\ calls' = [Answer(f, "ok", i) EXCEPT ![f] = Append(@, start_call(ft))]
        /\ UNCHANGED <<builder, api, container>>

\* Mutant of build: a failed create is issued again.
CreateErr_Retry(b, e) ==
    LET f == BuildFut(b)
    IN  /\ fut[f].pc = "create"
        /\ Pending(f)
        /\ Len(calls[f]) < 3
        /\ calls' = [Answer(f, e, Nil) EXCEPT ![f] = Append(@, create_call(fut[f]))]
        /\ UNCHANGED <<builder, api, fut, container, engine>>

\* create_container fails.
CreateErr(b, e) ==
    LET f == BuildFut(b)
    IN  /\ fut[f].pc = "create"
        /\ Pending(f)
        /\ fut' = [fut EXCEPT ![f].pc = "err", ![f].err = e]
        /\ calls' = Answer(f, e, Nil)
        /\ UNCHANGED <<builder, api, container, engine>>

\* run_container succeeds: the engine runs the container the call names;
\* and_then runs inspect_container with the same id.
StartOk(b) ==
    LET f == BuildFut(b)
        i == calls[f][Len(calls[f])].arg.id
    IN  /\ fut[f].pc = "start"
        /\ Pending(f)
        /\ i \in engine.containers
        /\ engine' = [engine EXCEPT !.running = @ \cup {i}]
        /\ fut' = [fut EXCEPT ![f].pc = "inspect"]
        /\ calls' = [Answer(f, "ok", Nil) EXCEPT ![f] = Append(@, inspect_call(fut[f]))]
        /\ UNCHANGED <<builder, api, container>>

\* Mutant of run_container: a failed start is taken for a success.
StartErr_Swallowed(b, e) ==
    LET f == BuildFut(b)
    IN  /\ fut[f].pc = "start"
        /\ Pending(f)
        /\ fut' = [fut EXCEPT ![f].pc = "inspect"]
        /\ calls' = [Answer(f, e, Nil) EXCEPT ![f] = Append(@, inspect_call(fut[f]))]
        /\ UNCHANGED <<builder, api, container, engine>>

\* run_container fails.
StartErr(b, e) ==
    LET f == BuildFut(b)
    IN  /\ fut[f].pc = "start"
        /\ Pending(f)
        /\ fut' = [fut EXCEPT ![f].pc = "err", ![f].err = e]
        /\ calls' = Answer(f, e, Nil)
        /\ UNCHANGED <<builder, api, container, engine>>

\* inspect_container succeeds: map builds the Container from the details.
InspectOk(b) ==
    LET f == BuildFut(b)
        i == calls[f][Len(calls[f])].arg.id
    IN  /\ fut[f].pc = "inspect"
        /\ Pending(f)
        /\ i \in engine.containers
        /\ fut' = [fut EXCEPT ![f].pc = "ok"]
        /\ calls' = Answer(f, "ok", EngineDetails(i))
        /\ container' = [container EXCEPT ![b] =
                            [state |-> "live", details |-> EngineDetails(i)]]
        /\ UNCHANGED <<builder, api, engine>>

\* inspect_container fails.
InspectErr(b, e) ==
    LET f == BuildFut(b)
    IN  /\ fut[f].pc = "inspect"
        /\ Pending(f)
        /\ fut' = [fut EXCEPT ![f].pc = "err", ![f].err = e]
        /\ calls' = Answer(f, e, Nil)
        /\ UNCHANGED <<builder, api, container, engine>>

----------------------------------------------------------------------------
(* Container *)

\* Container::delete: consumes the Container; the future it returns is the
\* remove call on the container named by id().
delete(b) ==
    LET f == DeleteFut(b)
    IN  /\ container[b].state = "live"
        /\ container' = [container EXCEPT ![b].state = "moved"]
        /\ fut' = [fut EXCEPT ![f] =
                    [NoFut EXCEPT !.pc = "delete", !.id = id(container[b]), !.of = b]]
        /\ UNCHANGED <<builder, api, calls, engine>>

\* The first poll of a delete() future issues the remove call.
PollDelete(b) ==
    LET f == DeleteFut(b)
    IN  /\ fut[f].pc = "delete"
        /\ fut' = [fut EXCEPT ![f].pc = "remove"]
        /\ calls' = [calls EXCEPT ![f] = Append(@, remove_call(fut[f]))]
        /\ UNCHANGED <<builder, api, container, engine>>

\* The remove call succeeds: the engine no longer holds the container.  Without
\* force the engine refuses to remove a running container.
RemoveOk(b) ==
    LET f == DeleteFut(b)
        a == calls[f][Len(calls[f])].arg
    IN  /\ fut[f].pc = "remove"
        /\ Pending(f)
        /\ a.id \in engine.containers
        /\ a.force \/ a.id \notin engine.running
        /\ engine' = [engine EXCEPT !.containers = @ \ {a.id}, !.running = @ \ {a.id}]
        /\ fut' = [fut EXCEPT ![f].pc = "ok"]
        /\ calls' = Answer(f, "ok", Nil)
        /\ UNCHANGED <<builder, api, container>>

\* The remove call fails.
RemoveErr(b, e) ==
    LET f == DeleteFut(b)
    IN  /\ fut[f].pc = "remove"
        /\ Pending(f)
        /\ fut' = [fut EXCEPT ![f].pc = "err", ![f].err = e]
        /\ calls' = Answer(f, e, Nil)
        /\ UNCHANGED <<builder, api, container, engine>>

----------------------------------------------------------------------------
(* The engine on its own *)

\* The process of a running container exits.
ContainerExit(i) ==
    /\ i \in engine.running
    /\ engine' = [engine EXCEPT !.running = @ \ {i}]
    /\ UNCHANGED <<builder, api, fut, calls, container>>

----------------------------------------------------------------------------
(* Specifications *)

\* Container::new on several builders side by side (new, then build, with no
\* configuration in between) and delete: the builds, the deletes and the
\* engine interleave freely.
Next ==
    \/ \E b \in Builders : new(b, ImageOf(b))
    \/ \E b \in Builders : build(b, << >>)
    \/ \E b \in Builders : PollReady(BuildFut(b))
    \/ \E b \in Builders : CreateOk(b)
    \/ \E b \in Builders, e \in Errors : CreateErr(b, e)
    \/ \E b \in Builders : StartOk(b)
    \/ \E b \in Builders, e \in Errors : StartErr(b, e)
    \/ \E b \in Builders : InspectOk(b)
    \/ \E b \in Builders, e \in Errors : InspectErr(b, e)
    \/ \E b \in Builders : delete(b)
    \/ \E b \in Builders : PollDelete(b)
    \/ \E b \in Builders : RemoveOk(b)
    \/ \E b \in Builders, e \in Errors : RemoveErr(b, e)
    \/ \E i \in engine.running : ContainerExit(i)

Spec == Init /\ [][Next]_vars

\* One builder with every configuration input, a pull_image() future made
\* from it, and its build.
NextCfg ==
    \/ \E b \in CfgBuilders, n \in ImageNames : new(b, n)
    \/ \E b \in CfgBuilders, n \in Names : name(b, n)
    \/ \E b \in CfgBuilders, n \in SlugLengths : slug_length(b, n)
    \/ \E b \in CfgBuilders, p \in PortInputs : expose(b, p)
    \/ \E b \in CfgBuilders, k \in CfgPulls : pull_image(b, k)
    \/ \E b \in CfgBuilders, s \in SeqsOfLen(SlugChars, MaxSlug) : build(b, s)
    \/ \E f \in FutIds : PollPull(f)
    \/ \E f \in FutIds : PollReady(f)
    \/ \E f \in FutIds : PullOutput(f)
    \/ \E f \in FutIds : PullEnd(f)
    \/ \E f \in FutIds, e \in Errors : PullError(f, e)
    \/ \E b \in CfgBuilders : CreateOk(b)
    \/ \E b \in CfgBuilders, e \in Errors : CreateErr(b, e)
    \/ \E b \in CfgBuilders : StartOk(b)
    \/ \E b \in CfgBuilders, e \in Errors : StartErr(b, e)
    \/ \E b \in CfgBuilders : InspectOk(b)
    \/ \E b \in CfgBuilders, e \in Errors : InspectErr(b, e)

SpecCfg == Init /\ [][NextCfg]_vars

\* One builder, the pull_image() futures made from it side by side, a change
\* of its name, and its build.
NextPull ==
    \/ \E b \in CfgBuilders, n \in ImageNames : new(b, n)
    \/ \E b \in CfgBuilders, n \in Names : name(b, n)
    \/ \E b \in CfgBuilders, k \in PullIds : pull_image(b, k)
    \/ \E b \in CfgBuilders : build(b, << >>)
    \/ \E f \in FutIds : PollPull(f)
    \/ \E f \in FutIds : PollReady(f)
    \/ \E f \in FutIds : PullOutput(f)
    \/ \E f \in FutIds : PullEnd(f)
    \/ \E f \in FutIds, e \in Errors : PullError(f, e)
    \/ \E b \in CfgBuilders : CreateOk(b)
    \/ \E b \in CfgBuilders, e \in Errors : CreateErr(b, e)
    \/ \E b \in CfgBuilders : StartOk(b)
    \/ \E b \in CfgBuilders, e \in Errors : StartErr(b, e)
    \/ \E b \in CfgBuilders : InspectOk(b)
    \/ \E b \in CfgBuilders, e \in Errors : InspectErr(b, e)

SpecPull == Init /\ [][NextPull]_vars

----------------------------------------------------------------------------
(* Properties *)

BuildCalls(b) == calls[BuildFut(b)]

\* The positions in a call history of the calls of one kind.
CallsOf(c, op) == { j \in DOMAIN c : c[j].op = op }

\* The ids the engine returned to build b from a successful create.
CreatedBy(b) ==
    { BuildCalls(b)[j].ret : j \in { k \in CallsOf(BuildCalls(b), "create") :
                                        BuildCalls(b)[k].res = "ok" } }

\* The ids for which a start call of build b succeeded.
StartedBy(b) ==
    { BuildCalls(b)[j].arg.id : j \in { k \in CallsOf(BuildCalls(b), "start") :
                                           BuildCalls(b)[k].res = "ok" } }

Finished(f) == fut[f].pc \in {"ok", "err"}

LatestTag == <<"l","a","t","e","s","t">>

\* C1: build() yields a Container only after create, then start, then inspect
\* have each succeeded, in that order and for the same container: a step is
\* issued only once the step before it has succeeded, a Container exists
\* exactly when the build future has succeeded, and then the build's last three
\* calls are a successful create, a successful start of the id create returned
\* and a successful inspect of that id.
C1_YieldsOnlyStarted ==
    \A b \in Builders :
        LET c == BuildCalls(b)
            n == Len(c)
        IN  /\ \A j \in 1..(n - 1) : c[j].res = "ok"
            /\ (container[b].state # "none") <=> (fut[BuildFut(b)].pc = "ok")
            /\ container[b].state # "none" =>
                /\ n >= 3
                /\ c[n - 2].op = "create" /\ c[n - 2].res = "ok"
                /\ c[n - 1].op = "start" /\ c[n - 1].res = "ok"
                /\ c[n - 1].arg.id = c[n - 2].ret
                /\ c[n].op = "inspect" /\ c[n].res = "ok"
                /\ c[n].arg.id = c[n - 2].ret

\* Two builds have yielded their Containers, and the process of one of the
\* containers has since exited.
C1_Witness ==
    /\ \A b \in Builders : container[b].state = "live"
    /\ \E b \in Builders : id(container[b]) \notin engine.running

\* C2: a failed step fails the build with exactly that step's error; nothing
\* is issued after it, no step is issued twice, a build never issues a remove
\* call, and at most one call of a build is unanswered at any time.
C2_FailureIsTerminal ==
    \A b \in Builders :
        LET c == BuildCalls(b)
            n == Len(c)
            f == BuildFut(b)
        IN  /\ Cardinality({ j \in DOMAIN c : c[j].res = "pending" }) <= 1
            /\ \A j \in DOMAIN c : c[j].op \in {"pull", "create", "start", "inspect"}
            /\ \A j, k \in DOMAIN c : j # k => c[j].op # c[k].op
            /\ \A j \in DOMAIN c :
                c[j].res \in Errors => j = n /\ fut[f].pc = "err" /\ fut[f].err = c[j].res
            /\ fut[f].pc = "err" => n >= 1 /\ c[n].res \in Errors
            /\ fut[f].pc # "err" => fut[f].err = Nil

\* One build has failed at start with one error, leaving its container on the
\* engine, and another has failed at inspect with the other error.
C2_Witness ==
    \E b1, b2 \in Builders :
        /\ fut[BuildFut(b1)].pc = "err" /\ fut[BuildFut(b2)].pc = "err"
        /\ BuildCalls(b1)[Len(BuildCalls(b1))].op = "start"
        /\ BuildCalls(b2)[Len(BuildCalls(b2))].op = "inspect"
        /\ fut[BuildFut(b1)].err = "e1" /\ fut[BuildFut(b2)].err = "e2"
        /\ CreatedBy(b1) \subseteq engine.containers

\* C3: the id() of the Container a build yields is the id the engine returned
\* from that build's create call.
C3_IdIsCreatedId ==
    \A b \in Builders :
        container[b].state # "none" =>
            /\ CreatedBy(b) # {}
            /\ \A i \in CreatedBy(b) : id(container[b]) = i

\* Two Containers exist whose builds were created in the order opposite to
\* the order of their builders.
C3_Witness ==
    \E b1, b2 \in Builders :
        /\ b1 < b2
        /\ container[b1].state = "live" /\ container[b2].state = "live"
        /\ id(container[b1]) > id(container[b2])

\* C4: a delete() future issues one call, a remove of the Container's id()
\* with force set, whether or not the container is running; it issues nothing
\* else, and it ends with the engine's answer to that remove.
C4_DeleteForcesRemove ==
    \A b \in Builders :
        LET f == DeleteFut(b)
            c == calls[f]
        IN  /\ Len(c) <= 1
            /\ \A j \in DOMAIN c :
                /\ c[j].op = "remove"
                /\ c[j].arg = [id |-> id(container[b]), force |-> TRUE]
                /\ container[b].state = "moved"
            /\ fut[f].pc \in {"remove", "ok", "err"} <=> Len(c) = 1
            /\ fut[f].pc = "remove" => c[1].res = "pending"
            /\ fut[f].pc = "ok" => c[1].res = "ok" /\ fut[f].err = Nil
            /\ fut[f].pc = "err" => c[1].res \in Errors /\ fut[f].err = c[1].res

\* One remove is in flight for a running container, and another delete, of a
\* container whose process had exited, has failed.
C4_Witness ==
    \E b1, b2 \in Builders :
        /\ fut[DeleteFut(b1)].pc = "remove"
        /\ fut[DeleteFut(b1)].id \in engine.running
        /\ fut[DeleteFut(b2)].pc = "err"
        /\ fut[DeleteFut(b2)].id \in engine.containers \ engine.running

\* C5: a pull_image() future issues one call, a pull of the image reference
\* name:tag of the builder it was made from, and nothing else; it is done only
\* once the engine has ended the progress stream, with the stream's outcome;
\* making it neither consumes the builder nor changes its configuration.
C5_PullOnlyPulls ==
    /\ \A k \in PullIds :
        LET f == PullFut(k)
            c == calls[f]
            b == fut[f].of
        IN  /\ Len(c) <= 1
            /\ \A j \in DOMAIN c :
                /\ c[j].op = "pull"
                /\ c[j].arg =
                    [image |-> builder[b].image_name \o <<":">> \o builder[b].image_tag]
            /\ Finished(f) => Len(c) = 1 /\ c[1].res # "pending"
            /\ fut[f].pc = "ok" => c[1].res = "ok"
            /\ fut[f].pc = "err" => c[1].res = fut[f].err /\ fut[f].err \in Errors
    /\ \A b \in Builders :
        /\ builder[b].state = "moved" <=> fut[BuildFut(b)].pc # "none"
        /\ builder[b].state # "none" =>
            /\ builder[b].image_name = api[b].image_name
            /\ builder[b].name = api[b].name
            /\ builder[b].slug_length = api[b].slug_length
            /\ builder[b].ports = api[b].ports
    /\ engine.containers \subseteq UNION { CreatedBy(b) : b \in Builders }

\* A pull_image() future has ended well, and the builder it was made from has
\* been given a name and built into a Container.
C5_Witness ==
    \E k1 \in PullIds, b \in Builders :
        /\ fut[PullFut(k1)].pc = "ok" /\ fut[PullFut(k1)].of = b
        /\ api[b].name # None
        /\ container[b].state = "live"

\* C6: the name build() sends in the create parameters is the base name of the
\* last name() call followed by "_" and slug_length alphanumeric characters when
\* slug_length > 0, the base name itself when slug_length = 0, and no name at
\* all when name() was never called, whatever the slug_length.
C6_NameSent ==
    \A b \in Builders :
        \A j \in CallsOf(BuildCalls(b), "create") :
            LET sent == BuildCalls(b)[j].arg.name
                B == api[b].name
                N == api[b].slug_length
            IN  IF B = None THEN sent = None
                ELSE IF N = 0 THEN sent = Some(B[1])
                ELSE /\ sent # None
                     /\ Len(sent[1]) = Len(B[1]) + 1 + N
                     /\ SubSeq(sent[1], 1, Len(B[1])) = B[1]
                     /\ sent[1][Len(B[1]) + 1] = "_"
                     /\ \A i \in (Len(B[1]) + 2)..Len(sent[1]) : sent[1][i] \in Alphanumeric

\* A create was issued for base name "g_" and slug length 2, the two slug
\* characters differing.
C6_Witness ==
    \E b \in Builders :
        /\ api[b].name = Some(<<"g","_">>)
        /\ api[b].slug_length = 2
        /\ \E j \in CallsOf(BuildCalls(b), "create") :
            /\ Len(BuildCalls(b)[j].arg.name[1]) = 5
            /\ BuildCalls(b)[j].arg.name[1][4] # BuildCalls(b)[j].arg.name[1][5]

\* C7: the create parameters of build() list one mapping (container port,
\* "tcp" or "udp", host port) per expose() call, in the order of the calls.
C7_PortsInOrder ==
    \A b \in Builders :
        \A j \in CallsOf(BuildCalls(b), "create") :
            LET sent == BuildCalls(b)[j].arg.expose
                asked == api[b].ports
            IN  /\ Len(sent) = Len(asked)
                /\ \A i \in 1..Len(asked) :
                    sent[i] = << asked[i].source,
                                 IF asked[i].protocol = "Tcp" THEN "tcp" ELSE "udp",
                                 asked[i].host >>

\* A create was issued after expose of the udp port, then of the tcp port.
C7_Witness ==
    \E b \in Builders :
        \E j \in CallsOf(BuildCalls(b), "create") :
            BuildCalls(b)[j].arg.expose = << <<53, "udp", 5353>>, <<80, "tcp", 8080>> >>

\* The containers a build created that are still on the engine and that no
\* start call of the build has started.
CreatedNotStarted(b) == (CreatedBy(b) \ StartedBy(b)) \cap engine.containers

\* C8 as stated: once build() has finished, with a Container or an error, the
\* engine holds no container that this build created but did not start.
C8_Original ==
    \A b \in Builders : Finished(BuildFut(b)) => CreatedNotStarted(b) = {}

\* C8 as amended: once build() has finished, the engine holds a container that
\* this build created but did not start exactly when the build failed at its
\* start step; a build that yields a Container has started what it created.
C8_NoRollback ==
    \A b \in Builders :
        LET c == BuildCalls(b)
        IN  Finished(BuildFut(b)) =>
                /\ CreatedNotStarted(b) # {} <=>
                      (fut[BuildFut(b)].pc = "err" /\ c[Len(c)].op = "start")
                /\ fut[BuildFut(b)].pc = "ok" => CreatedBy(b) \subseteq StartedBy(b)

\* One build has yielded a Container, another has failed at start and left its
\* container on the engine.
C8_Witness ==
    \E b1, b2 \in Builders :
        /\ fut[BuildFut(b1)].pc = "ok"
        /\ fut[BuildFut(b2)].pc = "err"
        /\ CreatedNotStarted(b2) # {}

\* C9: with several builds in flight on one engine, each build starts and
\* inspects only the container its own create returned, the Container it
\* yields holds the details its own inspect returned, and no build starts,
\* inspects or yields the container of another build.
C9_OwnContainerOnly ==
    \A b \in Builders :
        LET c == BuildCalls(b)
        IN  /\ Cardinality(CreatedBy(b)) <= 1
            /\ \A j \in CallsOf(c, "start") \cup CallsOf(c, "inspect") :
                c[j].arg.id \in CreatedBy(b)
            /\ container[b].state # "none" =>
                \E j \in CallsOf(c, "inspect") :
                    c[j].res = "ok" /\ container[b].details = c[j].ret
            /\ \A b2 \in Builders \ {b} :
                /\ \A j \in CallsOf(c, "start") \cup CallsOf(c, "inspect") :
                    c[j].arg.id \notin CreatedBy(b2)
                /\ container[b].state # "none" => id(container[b]) \notin CreatedBy(b2)

\* Two builds in flight at once, created in the order opposite to the order
\* of their builders: one awaits its start, the other its inspect.
C9_Witness ==
    \E b1, b2 \in Builders :
        /\ b1 < b2
        /\ fut[BuildFut(b1)].pc = "start" /\ fut[BuildFut(b2)].pc = "inspect"
        /\ fut[BuildFut(b1)].id > fut[BuildFut(b2)].id

\* C10: every builder has pull_on_build unset and the tag "latest"; so build()
\* never issues a pull, and its first call is a create for image_name:latest.
C10_NeverPullsOnBuild ==
    \A b \in Builders :
        LET c == BuildCalls(b)
        IN  /\ builder[b].state = "live" =>
                /\ builder[b].pull_on_build = FALSE
                /\ builder[b].image_tag = LatestTag
            /\ CallsOf(c, "pull") = {}
            /\ c # << >> =>
                /\ c[1].op = "create"
                /\ c[1].arg.image = api[b].image_name \o <<":">> \o LatestTag

\* A builder that was named, given a slug length and a port, and from which a
\* pull_image() future was made and run, has issued its create.
C10_Witness ==
    \E b \in Builders, k \in PullIds :
        /\ api[b].name # None /\ api[b].slug_length > 0 /\ api[b].ports # << >>
        /\ api[b].image_name = <<"n","g">>
        /\ fut[PullFut(k)].pc = "ok" /\ fut[PullFut(k)].of = b
        /\ fut[BuildFut(b)].pc = "create"

====
